---- MODULE Spec2Model ----
(***************************************************************************)
(* Deep Research Orchestrator: the orchestration pipeline of               *)
(* lib/orchestrator.ts (sub-question planner, engine adapter, response     *)
(* normaliser, fallback synthesiser, master-brief builder) and the         *)
(* /api/research route that calls it.                                      *)
(*                                                                         *)
(* JavaScript strings are TLA+ strings; Len, \o, Head, Tail and SubSeq     *)
(* act on them character by character.                                     *)
(***************************************************************************)
EXTENDS Integers, Sequences, FiniteSets, TLC

\* the clock read by new Date()
VARIABLE now

(***************************************************************************)
(* String primitives (ECMAScript String.prototype and RegExp classes).     *)
(***************************************************************************)
Ch(s, i) == SubSeq(s, i, i)

WhiteSpace == {" ", "\t", "\n"}

UpperChars == "ABCDEFGHIJKLMNOPQRSTUVWXYZ"

LowerChars == "abcdefghijklmnopqrstuvwxyz"

DigitChars == "0123456789"

CharsOf(s) == {Ch(s, i) : i \in 1..Len(s)}

UpperSet == CharsOf(UpperChars)

LowerSet == CharsOf(LowerChars)

DigitSet == CharsOf(DigitChars)

\* \w of a RegExp: [A-Za-z0-9_]
WordSet == UpperSet \cup LowerSet \cup DigitSet \cup {"_"}

toLowerChar(c) ==
  IF c \in UpperSet
    THEN Ch(LowerChars, CHOOSE i \in 1..26 : Ch(UpperChars, i) = c)
    ELSE c

toUpperChar(c) ==
  IF c \in LowerSet
    THEN Ch(UpperChars, CHOOSE i \in 1..26 : Ch(LowerChars, i) = c)
    ELSE c

\* The concatenation of pieces[lo..hi], halving the range so that long
\* strings do not nest deeply
RECURSIVE Cat(_, _, _)
Cat(pieces, lo, hi) ==
  IF lo > hi THEN ""
  ELSE IF lo = hi THEN pieces[lo]
  ELSE LET mid == (lo + hi) \div 2
       IN Cat(pieces, lo, mid) \o Cat(pieces, mid + 1, hi)

CatAll(pieces) == Cat(pieces, 1, Len(pieces))

toLowerCase(s) == CatAll([i \in 1..Len(s) |-> toLowerChar(Ch(s, i))])

\* s.slice(n): the suffix from 0-based index n
sliceFrom(s, n) == IF n >= Len(s) THEN "" ELSE SubSeq(s, n + 1, Len(s))

\* s.slice(0, n)
sliceTo(s, n) == IF n >= Len(s) THEN s ELSE SubSeq(s, 1, n)

startsWith(s, p) == Len(p) <= Len(s) /\ SubSeq(s, 1, Len(p)) = p

endsWith(s, p) ==
  Len(p) <= Len(s) /\ SubSeq(s, Len(s) - Len(p) + 1, Len(s)) = p

RECURSIVE trimStart(_)
trimStart(s) ==
  IF s # "" /\ Head(s) \in WhiteSpace THEN trimStart(Tail(s)) ELSE s

RECURSIVE trimEnd(_)
trimEnd(s) ==
  IF s # "" /\ Ch(s, Len(s)) \in WhiteSpace
    THEN trimEnd(SubSeq(s, 1, Len(s) - 1))
    ELSE s

trim(s) == trimEnd(trimStart(s))

\* s.replace(/\s+/g, " ")
collapseSpace(s) ==
  CatAll([i \in 1..Len(s) |->
            IF Ch(s, i) \notin WhiteSpace THEN Ch(s, i)
            ELSE IF i > 1 /\ Ch(s, i - 1) \in WhiteSpace THEN ""
            ELSE " "])

\* s.replace(/^\W+/, "")
RECURSIVE stripLeadingNonWord(_)
stripLeadingNonWord(s) ==
  IF s # "" /\ Head(s) \notin WordSet THEN stripLeadingNonWord(Tail(s)) ELSE s

\* s.replace(/\?+$/, "")
RECURSIVE stripTrailingQuestionMarks(_)
stripTrailingQuestionMarks(s) ==
  IF s # "" /\ Ch(s, Len(s)) = "?"
    THEN stripTrailingQuestionMarks(SubSeq(s, 1, Len(s) - 1))
    ELSE s

\* the k-th smallest member of a set of numbers
KthSmallest(S, k) == CHOOSE i \in S : Cardinality({j \in S : j <= i}) = k

\* s.split(/[?;]/): the pieces between separators, empty pieces included
splitOn(s, seps) ==
  LET at == {i \in 1..Len(s) : Ch(s, i) \in seps}
      cut == [k \in 0..(Cardinality(at) + 1) |->
                IF k = 0 THEN 0
                ELSE IF k > Cardinality(at) THEN Len(s) + 1
                ELSE KthSmallest(at, k)]
  IN [k \in 1..(Cardinality(at) + 1) |-> SubSeq(s, cut[k - 1] + 1, cut[k] - 1)]

\* items.join(sep)
join(items, sep) ==
  CatAll([i \in 1..Len(items) |-> IF i = 1 THEN items[i] ELSE sep \o items[i]])

(***************************************************************************)
(* Array helpers.                                                          *)
(***************************************************************************)
Map(f(_), seq) == [i \in 1..Len(seq) |-> f(seq[i])]

\* seq.filter(...) for the set of positions that pass the test
SelectIdx(seq, keep) ==
  [k \in 1..Cardinality(keep) |-> seq[KthSmallest(keep, k)]]

\* seq.filter(Boolean) on strings
FilterNonEmpty(seq) == SelectIdx(seq, {i \in 1..Len(seq) : seq[i] # ""})

Contains(seq, x) == \E i \in 1..Len(seq) : seq[i] = x

\* (a Set that keeps every item it is given)
DedupeKeepsAll(seq) == seq

\* Array.from(new Set(items)): first occurrences, in insertion order
Dedupe(seq) ==
  SelectIdx(seq, {i \in 1..Len(seq) : \A j \in 1..(i - 1) : seq[j] # seq[i]})

\* array.slice(0, n)
Take(seq, n) == IF Len(seq) <= n THEN seq ELSE SubSeq(seq, 1, n)

ensureUnique(items) == FilterNonEmpty(Dedupe(Map(trim, items)))

rotateArray(array, positions) ==
  IF array = <<>> THEN array
  ELSE LET offset == positions % Len(array)
       IN SubSeq(array, offset + 1, Len(array)) \o SubSeq(array, 1, offset)

(***************************************************************************)
(* Sub-question planner.                                                   *)
(***************************************************************************)
prefixes ==
  << "what is", "what are", "how does", "how do", "how will", "why is",
     "why are", "explain", "describe", "analyse", "analyze", "evaluate",
     "assess" >>

RECURSIVE stripPrefix(_, _, _)
stripPrefix(question, lowered, i) ==
  IF i > Len(prefixes) THEN question
  ELSE IF startsWith(lowered, prefixes[i])
    THEN trim(sliceFrom(question, Len(prefixes[i])))
    ELSE stripPrefix(question, lowered, i + 1)

deriveTopic(question) ==
  LET lowered == toLowerCase(question)
      topic == trim(stripTrailingQuestionMarks(
                 stripLeadingNonWord(stripPrefix(question, lowered, 1))))
  IN IF topic = "" THEN trim(question)
     ELSE toLowerChar(Head(topic)) \o Tail(topic)

defaultAngles(baseTopic) ==
  << "What is the current landscape and most recent developments regarding " \o baseTopic \o "?",
     "Which structural drivers, stakeholders, or mechanisms are influencing " \o baseTopic \o "?",
     "What empirical evidence, quantitative indicators, or case studies illuminate " \o baseTopic \o "?",
     "What are the forward-looking scenarios, risks, and strategic implications of " \o baseTopic \o "?" >>

adaptSegment(segment) ==
  IF endsWith(segment, "?") THEN segment ELSE segment \o "?"

MaxSubquestions == 6

generateSubquestions(question) ==
  LET cleaned == trim(collapseSpace(question))
      baseTopic == deriveTopic(cleaned)
      segments == FilterNonEmpty(Map(trim, splitOn(cleaned, {"?", ";"})))
  IN IF Len(segments) > 1
       THEN Take(ensureUnique(Map(adaptSegment, Dedupe(segments))), MaxSubquestions)
       ELSE ensureUnique(defaultAngles(baseTopic))

(***************************************************************************)
(* JSON values as JavaScript sees them after response.json(): each value   *)
(* carries its type, so that a payload can hold anything at any place.     *)
(***************************************************************************)
Undef == [t |-> "undefined"]

Null == [t |-> "null"]

Str(s) == [t |-> "string", s |-> s]

Num(n) == [t |-> "number", n |-> n]

Arr(a) == [t |-> "array", a |-> a]

Obj(f) == [t |-> "object", f |-> f]

Bool(b) == [t |-> "boolean", b |-> b]

IsNullish(v) == v.t \in {"undefined", "null"}

\* Boolean(v)
Truthy(v) ==
  CASE v.t \in {"undefined", "null"} -> FALSE
    [] v.t = "string" -> v.s # ""
    [] v.t = "number" -> v.n # 0
    [] v.t = "boolean" -> v.b
    [] OTHER -> TRUE

\* v[key] on a non-nullish value: own properties of objects only
Get(v, key) ==
  IF v.t = "object" /\ key \in DOMAIN v.f THEN v.f[key] ELSE Undef

\* a ?? b
Coalesce(a, b) == IF IsNullish(a) THEN b ELSE a

\* The value of an expression that may throw: Ok(v) or Throw(message)
Ok(v) == [ok |-> TRUE, v |-> v]

Throw(message) == [ok |-> FALSE, message |-> message]

(***************************************************************************)
(* Engine registry.                                                        *)
(***************************************************************************)
ENGINE_CONFIGS ==
  << [ id |-> "openai", name |-> "OpenAI Deep Research",
       envPrefix |-> "OPENAI_DEEP_RESEARCH",
       strengths |-> "Robust summarisation and synthesis across lengthy documents; strong reasoning for causal chains.",
       cautions |-> "Slower latency for large workloads; currently optimised for English-language sources.",
       bestFor |-> "Deep analytical dives that require structured synthesis and reasoning transparency." ],
     [ id |-> "perplexity", name |-> "Perplexity Deep Research",
       envPrefix |-> "PERPLEXITY_DEEP_RESEARCH",
       strengths |-> "Fast coverage of current events with traceable citations; balanced extractive/abstractive summaries.",
       cautions |-> "Occasional redundancy across retrieved passages; quality depends on accessible sources.",
       bestFor |-> "Quick situational awareness and news monitoring when up-to-the-minute coverage matters." ],
     [ id |-> "kimi", name |-> "Kimi K2",
       envPrefix |-> "KIMI_K2",
       strengths |-> "Excels on multilingual corpora and developer/technical content; good mathematical reasoning.",
       cautions |-> "Live web access may be region-limited; English-language coverage can trail peers on niche topics.",
       bestFor |-> "Bilingual or technical dossiers where Mandarin-language sources and technical manuals matter." ],
     [ id |-> "gemini", name |-> "Gemini 2.5 Pro",
       envPrefix |-> "GEMINI_25_PRO",
       strengths |-> "Strong fact-checking, hallucination resistance, and multimodal reasoning (charts, tables, images).",
       cautions |-> "Strict safety filters can redact contentious topics; API quotas vary by project tier.",
       bestFor |-> "Enterprise workflows needing conservative, well-cited synthesis with multimodal inputs." ] >>

EngineIndex == 1..Len(ENGINE_CONFIGS)

(***************************************************************************)
(* hashString: the first 8 hex digits of the SHA-256 digest, read as a     *)
(* base-16 number.  The digest is tabulated for the strings the bounded    *)
(* inputs produce; the number (up to 2^32 - 1) is kept as two 16-bit       *)
(* halves, hi * 65536 + lo.                                                *)
(***************************************************************************)
sha256Hex8(value) ==
  CASE value = "openai:What are the risks of X?" -> "043cb107"
    [] value = "perplexity:What are the risks of X?" -> "29d71b79"
    [] value = "kimi:What are the risks of X?" -> "fdf40626"
    [] value = "gemini:What are the risks of X?" -> "89c5474a"
    [] value = "openai:Explain tea" -> "540ac651"
    [] value = "perplexity:Explain tea" -> "64c0da73"
    [] value = "kimi:Explain tea" -> "76dd52c6"
    [] value = "gemini:Explain tea" -> "b450976a"
    [] value = "openai:a? b; a" -> "2e389098"
    [] value = "perplexity:a? b; a" -> "1a26d4c9"
    [] value = "kimi:a? b; a" -> "842feaee"
    [] value = "gemini:a? b; a" -> "95c702a2"
    [] value = "openai:a;b;c;d;e;f;g" -> "196b1c34"
    [] value = "perplexity:a;b;c;d;e;f;g" -> "a9bf6dfb"
    [] value = "kimi:a;b;c;d;e;f;g" -> "37e57f74"
    [] value = "gemini:a;b;c;d;e;f;g" -> "dc1cb38f"
    [] value = "openai:?" -> "b256683e"
    [] value = "perplexity:?" -> "5ebd0fbe"
    [] value = "kimi:?" -> "4a2da905"
    [] value = "gemini:?" -> "4956b9bb"

HexChars == "0123456789abcdef"

hexDigit(c) == (CHOOSE i \in 1..16 : Ch(HexChars, i) = c) - 1

RECURSIVE parseIntHex(_)
parseIntHex(h) ==
  IF h = "" THEN 0 ELSE parseIntHex(SubSeq(h, 1, Len(h) - 1)) * 16 + hexDigit(Ch(h, Len(h)))

\* (a seed salted with the clock)
hashStringSalted(value) ==
  LET hash == sha256Hex8(value)
  IN [hi |-> parseIntHex(SubSeq(hash, 1, 4)), lo |-> parseIntHex(SubSeq(hash, 5, 8)) + now]

hashString(value) ==
  LET hash == sha256Hex8(value)
  IN [hi |-> parseIntHex(SubSeq(hash, 1, 4)), lo |-> parseIntHex(SubSeq(hash, 5, 8))]

\* (seed + add) % m for a seed kept as halves, m < 2^15
SeedMod(seed, add, m) == ((seed.hi % m) * (65536 % m) + seed.lo + add) % m

(***************************************************************************)
(* Fallback synthesiser.                                                   *)
(***************************************************************************)
capitalise(value) ==
  IF value = "" THEN value ELSE toUpperChar(Head(value)) \o Tail(value)

titleWord(word) ==
  IF word = "" THEN "" ELSE toUpperChar(Head(word)) \o Tail(word)

titleCase(value) ==
  join(Map(titleWord, splitOn(toLowerCase(value), {" "})), " ")

AlnumSet == LowerSet \cup DigitSet

\* s.replace(/[^a-z0-9]+/g, "-")
dashRuns(s) ==
  CatAll([i \in 1..Len(s) |->
            IF Ch(s, i) \in AlnumSet THEN Ch(s, i)
            ELSE IF i > 1 /\ Ch(s, i - 1) \notin AlnumSet THEN ""
            ELSE "-"])

\* s.replace(/^-+|-+$/g, "")
RECURSIVE stripDashes(_)
stripDashes(s) ==
  IF s # "" /\ Head(s) = "-" THEN stripDashes(Tail(s))
  ELSE IF s # "" /\ Ch(s, Len(s)) = "-" THEN stripDashes(SubSeq(s, 1, Len(s) - 1))
  ELSE s

SlugLimit == 80

slugify(value) == sliceTo(stripDashes(dashRuns(toLowerCase(value))), SlugLimit)

buildPlaceholderReferences(topic, theme, seed) ==
  LET base == slugify(topic \o "-" \o theme)
  IN << [ title |-> "Context overview on " \o titleCase(topic),
          url |-> "https://placeholder.research/" \o base \o "/" \o ToString(SeedMod(seed, 0, 7) + 1),
          snippet |-> "Background primer discussing " \o topic \o " through the lens of " \o toLowerCase(theme) \o "." ],
        [ title |-> "Comparative analysis: " \o titleCase(theme),
          url |-> "https://placeholder.research/" \o base \o "/" \o ToString(SeedMod(seed, 0, 13) + 2),
          snippet |-> "Summarises contrasting viewpoints relevant to " \o toLowerCase(theme) \o "." ] >>

\* (a fallback finding whose statement does not name its engine)
buildAnonymousFinding(engine, theme, topic, angle, seed) ==
  [ theme |-> theme,
    statement |-> "Analysis indicates that " \o topic
                    \o " is primarily shaped by " \o angle
                    \o " within the context of " \o toLowerCase(theme) \o ".",
    rationale |-> "Heuristic synthesis derived from common open-source knowledge patterns. Replace with validated findings once "
                    \o engine.name \o " is connected to its official API.",
    confidence |-> Str("low"),
    references |-> buildPlaceholderReferences(topic, theme, seed),
    evidenceStatus |-> Str("uncertain") ]

buildFallbackFinding(engine, theme, topic, angle, seed) ==
  [ theme |-> theme,
    statement |-> capitalise(engine.name) \o " indicates that " \o topic
                    \o " is primarily shaped by " \o angle
                    \o " within the context of " \o toLowerCase(theme) \o ".",
    rationale |-> "Heuristic synthesis derived from common open-source knowledge patterns. Replace with validated findings once "
                    \o engine.name \o " is connected to its official API.",
    confidence |-> Str("low"),
    references |-> buildPlaceholderReferences(topic, theme, seed),
    evidenceStatus |-> Str("uncertain") ]

\* (a fallback that rates itself medium)
fallbackConfidenceMedium == Str("medium")

\* overallConfidence of a fallback result
fallbackConfidence == Str("low")

tonalities ==
  << "quantitative indicators", "expert interviews", "regulatory filings",
     "academic literature", "industry benchmarks", "market sentiment" >>

SyntheticWarning ==
  "This is a synthetic placeholder response generated locally. Connect the engine's API to obtain live research."

\* seed + index, still as halves (index is small, lo may exceed 16 bits)
SeedPlus(seed, index) == [hi |-> seed.hi, lo |-> seed.lo + index]

generateFallback(engine, question, subquestions) ==
  LET topic == deriveTopic(question)
      seed == hashString(engine.id \o ":" \o question)
      angles == rotateArray(tonalities, SeedMod(seed, 0, Len(tonalities)))
      findings == [ i \in 1..Len(subquestions) |->
                      buildFallbackFinding(engine, subquestions[i], topic,
                        angles[((i - 1) % Len(angles)) + 1], SeedPlus(seed, i - 1)) ]
  IN [ engineId |-> engine.id,
       engineName |-> engine.name,
       summary |-> Str(engine.name \o " generated scaffolded insights on " \o topic
                         \o ", but live connectors are not yet configured."),
       findings |-> findings,
       overallConfidence |-> fallbackConfidence,
       usedFallback |-> TRUE,
       rawEndpoint |-> Undef,
       warnings |-> Arr(<<Str(SyntheticWarning)>>) ]

(***************************************************************************)
(* Response normaliser.                                                    *)
(***************************************************************************)
\* value?.trim() for a property value: undefined when nullish, a TypeError
\* when the value is not a string
optTrim(v, what) ==
  CASE IsNullish(v) -> Ok(Undef)
    [] v.t = "string" -> Ok(Str(trim(v.s)))
    [] OTHER -> Throw(what \o "?.trim is not a function")

\* ref?.title
optGet(ref, key) == IF IsNullish(ref) THEN Undef ELSE Get(ref, key)

keepReference(ref) == Truthy(optGet(ref, "title")) /\ Truthy(optGet(ref, "url"))

filterReferences(refs) ==
  SelectIdx(refs, {i \in 1..Len(refs) : keepReference(refs[i])})

\* the map callback of cleanReferences, on a reference that passed the filter
cleanReference(ref) ==
  LET title == Get(ref, "title")
      url == Get(ref, "url")
      snippet == optTrim(Get(ref, "snippet"), "ref.snippet")
  IN IF title.t # "string" THEN Throw("ref.title.trim is not a function")
     ELSE IF url.t # "string" THEN Throw("ref.url.trim is not a function")
     ELSE IF ~snippet.ok THEN snippet
     ELSE Ok([ title |-> trim(title.s),
               url |-> trim(url.s),
               snippet |-> IF IsNullish(snippet.v) THEN "" ELSE snippet.v.s ])

MaxReferences == 5

\* The first throw of a sequence of evaluations, or the sequence of values
FirstThrow(evals) ==
  IF \A i \in 1..Len(evals) : evals[i].ok
    THEN Ok([i \in 1..Len(evals) |-> evals[i].v])
    ELSE evals[CHOOSE i \in 1..Len(evals) :
                 ~evals[i].ok /\ \A j \in 1..(i - 1) : evals[j].ok]

cleanReferences(references) ==
  LET mapped == FirstThrow(Map(cleanReference, filterReferences(references)))
  IN IF mapped.ok THEN Ok(Take(mapped.v, MaxReferences)) ELSE mapped

\* a?.trim() || fallbackText
trimOr(trimmed, fallbackText) ==
  IF Truthy(trimmed.v) THEN trimmed.v.s ELSE fallbackText

normaliseFinding(engine, finding, subquestions) ==
  LET defaultTheme == IF Len(subquestions) > 0 THEN subquestions[1] ELSE "General Insights"
      theme == optTrim(Get(finding, "theme"), "finding.theme")
      statement == optTrim(Get(finding, "statement"), "finding.statement")
      rationale == optTrim(Get(finding, "rationale"), "finding.rationale")
      rawRefs == Get(finding, "references")
      references == IF rawRefs.t = "array" THEN cleanReferences(rawRefs.a) ELSE Ok(<<>>)
  IN IF IsNullish(finding)
       THEN Throw("Cannot read properties of " \o finding.t \o " (reading 'theme')")
     ELSE IF ~theme.ok THEN theme
     ELSE IF ~statement.ok THEN statement
     ELSE IF ~rationale.ok THEN rationale
     ELSE IF ~references.ok THEN references
     ELSE Ok([ theme |-> trimOr(theme, defaultTheme),
               statement |-> trimOr(statement,
                 "No structured statement supplied by " \o engine.name \o ". Fallback summary inserted."),
               rationale |-> trimOr(rationale,
                 "Original engine response omitted explicit rationale. Please verify directly with cited sources."),
               confidence |-> Coalesce(Get(finding, "confidence"), Str("medium")),
               references |-> references.v,
               evidenceStatus |-> Coalesce(Get(finding, "evidenceStatus"), Str("uncertain")) ])

SummaryThemes == 3

summarizeFindings(findings, engineName) ==
  IF Len(findings) = 0
    THEN engineName \o " did not return structured findings."
    ELSE LET themes == ensureUnique([i \in 1..Len(findings) |-> findings[i].theme])
         IN engineName \o " highlighted " \o join(Take(themes, SummaryThemes), ", ")
              \o " as the most material themes."

confidenceWeight(finding) ==
  IF finding.confidence = Str("high") THEN 3
  ELSE IF finding.confidence = Str("medium") THEN 2
  ELSE 1

RECURSIVE confidenceScore(_)
confidenceScore(findings) ==
  IF findings = <<>> THEN 0
  ELSE confidenceWeight(findings[1]) + confidenceScore(Tail(findings))

\* (an inference that rounds the average to the nearest level)
inferByRounding(findings) ==
  LET score == confidenceScore(findings)
  IN IF Len(findings) = 0 THEN "low"
     ELSE IF 2 * score >= 5 * Len(findings) - 1 THEN "high"
     ELSE IF 2 * score >= 3 * Len(findings) THEN "medium"
     ELSE "low"

\* average >= 2.5 and average >= 1.75, cleared of the division
inferOverallConfidence(findings) ==
  LET score == confidenceScore(findings)
  IN IF Len(findings) = 0 THEN "low"
     ELSE IF 2 * score >= 5 * Len(findings) THEN "high"
     ELSE IF 4 * score >= 7 * Len(findings) THEN "medium"
     ELSE "low"

SchemaWarning ==
  "Live API response did not match expected schema. Fallback synthesis provided instead."

\* (a schema-mismatch branch that does not record the endpoint)
schemaFallbackWithoutEndpoint(engine, question, subquestions, endpoint) ==
  [generateFallback(engine, question, subquestions) EXCEPT
     !.warnings = Arr(<<Str(SchemaWarning)>>)]

\* the result of the shouldFallback branch
schemaFallback(engine, question, subquestions, endpoint) ==
  [generateFallback(engine, question, subquestions) EXCEPT
     !.warnings = Arr(<<Str(SchemaWarning)>>),
     !.rawEndpoint = endpoint]

normaliseEngineResponse(engine, data, question, subquestions, endpoint) ==
  LET shouldFallback ==
        \/ ~Truthy(data)
        \/ ~Truthy(Get(data, "findings"))
        \/ Get(data, "findings").t # "array"
        \/ ~Truthy(Get(data, "summary"))
      normalised ==
        FirstThrow([i \in 1..Len(Get(data, "findings").a) |->
                      normaliseFinding(engine, Get(data, "findings").a[i], subquestions)])
  IN IF shouldFallback
       THEN Ok(schemaFallback(engine, question, subquestions, endpoint))
     ELSE IF ~normalised.ok THEN normalised
     ELSE Ok([ engineId |-> engine.id,
               engineName |-> engine.name,
               summary |-> Coalesce(Get(data, "summary"),
                                    Str(summarizeFindings(normalised.v, engine.name))),
               findings |-> normalised.v,
               overallConfidence |-> Coalesce(Get(data, "overallConfidence"),
                                              Str(inferOverallConfidence(normalised.v))),
               usedFallback |-> FALSE,
               rawEndpoint |-> endpoint,
               warnings |-> Coalesce(Get(data, "warnings"), Arr(<<>>)) ])

(***************************************************************************)
(* Engine adapter.  A response is what fetch and the body readers give:    *)
(*   [kind |-> "reject", message]          fetch (or a body read) throws   *)
(*   [kind |-> "http", ok, status, text]   a non-success status            *)
(*   [kind |-> "http", ok, status, json]   a success status; json is       *)
(*                                         Ok(data) or Throw(message)      *)
(***************************************************************************)
BodyLimit == 500

\* (an adapter that looks at the endpoint only)
engineConfiguredByEndpoint(engineEnv) == Truthy(engineEnv.endpoint)

\* !(!env.endpoint || !env.apiKey)
engineConfigured(engineEnv) == Truthy(engineEnv.endpoint) /\ Truthy(engineEnv.apiKey)

withWarnings(result, warnings) == [result EXCEPT !.warnings = Arr(warnings)]

\* the try block of runSingleEngine from the point where the fetch settles:
\* Ok(result) when it returns, Throw(message) when it throws
trySingleEngine(engine, engineEnv, question, subquestions, response) ==
  IF response.kind = "reject" THEN Throw(response.message)
  ELSE IF ~response.ok
    THEN Ok(withWarnings(generateFallback(engine, question, subquestions),
              << Str("Live API call failed with status " \o ToString(response.status)
                       \o ". Fallback synthesis provided instead."),
                 Str(sliceTo(response.text, BodyLimit)) >>))
  ELSE IF ~response.json.ok THEN response.json
  ELSE normaliseEngineResponse(engine, response.json.v, question, subquestions,
                               engineEnv.endpoint)

\* (a runSingleEngine without its catch clause)
settleWithoutCatch(engine, engineEnv, question, subquestions, response) ==
  trySingleEngine(engine, engineEnv, question, subquestions, response)

\* runSingleEngine from the point where the fetch settles: the try block and
\* its catch clause
settleSingleEngine(engine, engineEnv, question, subquestions, response) ==
  LET attempt == trySingleEngine(engine, engineEnv, question, subquestions, response)
  IN IF attempt.ok THEN attempt
     ELSE Ok(withWarnings(generateFallback(engine, question, subquestions),
               <<Str("Live API call threw an error: " \o attempt.message)>>))

(***************************************************************************)
(* Master-brief builder.                                                   *)
(***************************************************************************)
\* String(v), as a template literal or Array.prototype.join applies it
RECURSIVE ToJsString(_)
ToJsString(v) ==
  CASE v.t = "string" -> v.s
    [] v.t = "number" -> ToString(v.n)
    [] v.t = "boolean" -> IF v.b THEN "true" ELSE "false"
    [] v.t = "array" ->
         CatAll([i \in 1..Len(v.a) |->
                   (IF i = 1 THEN "" ELSE ",")
                     \o (IF IsNullish(v.a[i]) THEN "" ELSE ToJsString(v.a[i]))])
    [] v.t = "object" -> "[object Object]"
    [] OTHER -> v.t

\* text.replace(/[^a-z0-9\s]/g, "")
keepCanonical(s) ==
  CatAll([i \in 1..Len(s) |->
            IF Ch(s, i) \in AlnumSet \cup WhiteSpace THEN Ch(s, i) ELSE ""])

normaliseText(text) == trim(collapseSpace(keepCanonical(toLowerCase(text))))

deserialiseText(text) == text

lookupEngineName(engineId) ==
  IF \E i \in EngineIndex : ENGINE_CONFIGS[i].id = engineId
    THEN ENGINE_CONFIGS[CHOOSE i \in EngineIndex :
                          ENGINE_CONFIGS[i].id = engineId
                          /\ \A j \in 1..(i - 1) : ENGINE_CONFIGS[j].id # engineId].name
    ELSE engineId

\* every (engine, finding) pair, in the order the nested loops visit them
RECURSIVE flattenFindings(_)
flattenFindings(engines) ==
  IF engines = <<>> THEN <<>>
  ELSE [i \in 1..Len(engines[1].findings) |->
          [engine |-> engines[1], finding |-> engines[1].findings[i]]]
       \o flattenFindings(Tail(engines))

\* (a consensusMap that counts findings instead of engines)
consensusMapPerFinding(flat) ==
  LET canon == [i \in 1..Len(flat) |-> normaliseText(flat[i].finding.statement)]
      keys == Dedupe(canon)
  IN [k \in 1..Len(keys) |->
        [ statement |-> keys[k],
          enginesSet |-> SelectIdx([i \in 1..Len(flat) |-> flat[i].engine.engineId],
                                   {i \in 1..Len(flat) : canon[i] = keys[k]}) ]]

\* consensusMap: canonical statement -> Set of engine ids, in insertion order
consensusMapOf(flat) ==
  LET canon == [i \in 1..Len(flat) |-> normaliseText(flat[i].finding.statement)]
      keys == Dedupe(canon)
  IN [k \in 1..Len(keys) |->
        [ statement |-> keys[k],
          enginesSet |-> Dedupe(
            SelectIdx([i \in 1..Len(flat) |-> flat[i].engine.engineId],
                      {i \in 1..Len(flat) : canon[i] = keys[k]})) ]]

\* themeMap: theme -> "engine: statement" items, in insertion order
themeMapOf(flat) ==
  LET themes == Dedupe([i \in 1..Len(flat) |-> flat[i].finding.theme])
  IN [k \in 1..Len(themes) |->
        [ theme |-> themes[k],
          items |-> SelectIdx(
            [i \in 1..Len(flat) |->
               flat[i].engine.engineName \o ": " \o flat[i].finding.statement],
            {i \in 1..Len(flat) : flat[i].finding.theme = themes[k]}) ]]

isUncertain(entry) ==
  \/ entry.finding.confidence = Str("low")
  \/ entry.finding.evidenceStatus # Str("confirmed")
  \/ entry.engine.usedFallback

uncertaintyLine(entry) ==
  entry.engine.engineName \o " flagged \"" \o entry.finding.statement \o "\" as "
    \o ToJsString(entry.finding.evidenceStatus) \o " with "
    \o ToJsString(entry.finding.confidence) \o " confidence."

uncertaintyOf(flat) ==
  SelectIdx([i \in 1..Len(flat) |-> uncertaintyLine(flat[i])],
            {i \in 1..Len(flat) : isUncertain(flat[i])})

MaxConsensus == 8

consensusLine(entry) ==
  deserialiseText(entry.statement) \o " (corroborated by "
    \o join(Map(lookupEngineName, entry.enginesSet), ", ") \o ")"

disagreementLine(entry) ==
  deserialiseText(entry.statement) \o " (only reported by "
    \o lookupEngineName(entry.enginesSet[1]) \o "; treat as unverified)"

RECURSIVE countFindings(_)
countFindings(engines) ==
  IF engines = <<>> THEN 0
  ELSE Len(engines[1].findings) + countFindings(Tail(engines))

buildExecutiveSummary(question, consensus, engines) ==
  LET corePoint ==
        IF Len(consensus) > 0 THEN consensus[1]
        ELSE "Engines produced preliminary scaffolding for \"" \o question
               \o "\" but require live connectors for verification."
      total == countFindings(engines)
      coverage ==
        "Coverage blends " \o ToString(Len(engines)) \o " research engines, each contributing "
          \o (IF total # 0 THEN ToString(total) ELSE "multiple") \o " discrete findings."
      reliability ==
        IF \A i \in 1..Len(engines) : ~engines[i].usedFallback
          THEN "All engines responded successfully with structured findings."
          ELSE "At least one engine responded via fallback mode; interpret insights as indicative rather than authoritative."
      action ==
        "Recommended next step: validate the highest-priority findings with primary sources or domain experts before acting."
  IN <<corePoint, coverage, reliability, action>>

MaxRecommendations == 6

\* (a credential line that names every engine)
buildRecommendationsNamingAll(question, consensus, engines) ==
  LET topic == deriveTopic(question)
      first ==
        IF Len(consensus) # 0
          THEN "Prioritise follow-up research on consensus items to confirm data quality for " \o topic \o "."
          ELSE "Commission first-party research to establish a verified baseline on " \o topic \o "."
      fallbackEngines == engines
      credentials ==
        IF \E i \in 1..Len(engines) : engines[i].usedFallback
          THEN << "Configure API credentials for "
                    \o join([i \in 1..Len(fallbackEngines) |-> fallbackEngines[i].engineName], ", ")
                    \o " to unlock live evidence." >>
          ELSE <<>>
  IN Take(ensureUnique(
       <<first>> \o credentials \o
       << "Create a verification log capturing source reliability, publication dates, and bias notes for every cited item.",
          "Schedule a red-team review to stress-test the narrative around " \o topic
            \o ", ensuring contradictory evidence is captured." >>),
       MaxRecommendations)

buildRecommendations(question, consensus, engines) ==
  LET topic == deriveTopic(question)
      first ==
        IF Len(consensus) # 0
          THEN "Prioritise follow-up research on consensus items to confirm data quality for " \o topic \o "."
          ELSE "Commission first-party research to establish a verified baseline on " \o topic \o "."
      fallbackEngines ==
        SelectIdx(engines, {i \in 1..Len(engines) : engines[i].usedFallback})
      credentials ==
        IF Len(fallbackEngines) # 0
          THEN << "Configure API credentials for "
                    \o join([i \in 1..Len(fallbackEngines) |-> fallbackEngines[i].engineName], ", ")
                    \o " to unlock live evidence." >>
          ELSE <<>>
  IN Take(ensureUnique(
       <<first>> \o credentials \o
       << "Create a verification log capturing source reliability, publication dates, and bias notes for every cited item.",
          "Schedule a red-team review to stress-test the narrative around " \o topic
            \o ", ensuring contradictory evidence is captured." >>),
       MaxRecommendations)

\* engine.warnings?.[0]
firstWarning(warnings) ==
  CASE warnings.t = "array" -> IF Len(warnings.a) > 0 THEN warnings.a[1] ELSE Undef
    [] warnings.t = "string" -> IF warnings.s # "" THEN Str(Ch(warnings.s, 1)) ELSE Undef
    [] OTHER -> Get(warnings, "0")

FallbackModeNote == "Currently operating in fallback mode without live API connectivity."

toolComparisonEntry(engine) ==
  LET config == ENGINE_CONFIGS[CHOOSE i \in EngineIndex : ENGINE_CONFIGS[i].id = engine.engineId]
      notes == << Str(config.cautions),
                  IF engine.usedFallback THEN Str(FallbackModeNote) ELSE Undef,
                  firstWarning(engine.warnings) >>
      kept == SelectIdx(notes, {i \in 1..Len(notes) : Truthy(notes[i])})
      cautionaryNotes == join(Map(ToJsString, kept), " ")
  IN [ engineId |-> engine.engineId,
       engineName |-> engine.engineName,
       strengths |-> config.strengths,
       cautions |-> IF cautionaryNotes # "" THEN cautionaryNotes ELSE config.cautions,
       bestFor |-> config.bestFor ]

MaxTakeaways == 5

MaxRisks == 10

buildMasterReport(question, subquestions, engines, generatedAt) ==
  LET flat == flattenFindings(engines)
      consensusMap == consensusMapOf(flat)
      themeMap == themeMapOf(flat)
      uncertainty == uncertaintyOf(flat)
      disagreementMap ==
        SelectIdx(consensusMap,
                  {k \in 1..Len(consensusMap) : Len(consensusMap[k].enginesSet) = 1})
      consensusDescriptions ==
        Take(Map(consensusLine,
                 SelectIdx(consensusMap,
                           {k \in 1..Len(consensusMap) : Len(consensusMap[k].enginesSet) >= 2})),
             MaxConsensus)
      disagreementDescriptions == Map(disagreementLine, disagreementMap)
  IN [ question |-> question,
       subquestions |-> subquestions,
       executiveSummary |-> buildExecutiveSummary(question, consensusDescriptions, engines),
       consensus |-> consensusDescriptions,
       disagreements |-> disagreementDescriptions,
       keyFindings |-> [k \in 1..Len(themeMap) |->
                          [ theme |-> themeMap[k].theme,
                            takeaways |-> Take(ensureUnique(themeMap[k].items), MaxTakeaways) ]],
       toolComparison |-> Map(toolComparisonEntry, engines),
       risksAndUncertainties |->
         Take(ensureUnique(uncertainty \o disagreementDescriptions), MaxRisks),
       recommendations |-> buildRecommendations(question, consensusDescriptions, engines),
       engines |-> engines,
       generatedAt |-> generatedAt ]

FallbackDisclosure ==
  "One or more engines returned synthetic fallback responses because live API credentials were missing. Treat all findings as low-confidence scaffolding until real connectors are configured."

(***************************************************************************)
(* The environment: process.env, and what each endpoint may answer.        *)
(***************************************************************************)
FlakyUrl == "https://flaky.example/research"

SteadyUrl == "https://steady.example/research"

SilentUrl == "https://silent.example/research"

Unset == [endpoint |-> Undef, apiKey |-> Undef, model |-> Undef]

KeyOnly == [endpoint |-> Undef, apiKey |-> Str("sk-test"), model |-> Undef]

EndpointOnly == [endpoint |-> Str(FlakyUrl), apiKey |-> Undef, model |-> Undef]

Flaky == [endpoint |-> Str(FlakyUrl), apiKey |-> Str("sk-test"), model |-> Str("deep-1")]

Steady == [endpoint |-> Str(SteadyUrl), apiKey |-> Str("sk-test"), model |-> Undef]

Silent == [endpoint |-> Str(SilentUrl), apiKey |-> Str("sk-test"), model |-> Undef]

\* process.env as resolveEngineEnv reads it, one entry per registered engine
Environments ==
  { <<Unset, Unset, Unset, Unset>>,
    <<Flaky, KeyOnly, EndpointOnly, Unset>>,
    <<Unset, Flaky, Steady, Unset>>,
    <<Flaky, Steady, Steady, Unset>>,
    <<Steady, Steady, Steady, Steady>>,
    <<Steady, Silent, Unset, Steady>> }

Ref(title, url) == Obj([title |-> Str(title), url |-> Str(url), snippet |-> Str(" s ")])

DataRich ==
  Obj([ summary |-> Str("Demand outlook"),
        findings |-> Arr(<<
          Obj([ theme |-> Str(" Demand "),
                statement |-> Str("Demand is rising"),
                rationale |-> Str("Orders grew"),
                confidence |-> Str("high"),
                evidenceStatus |-> Str("confirmed"),
                references |-> Arr(<<
                  Null,
                  Obj([title |-> Str("No url")]),
                  Obj([title |-> Str(""), url |-> Str("https://e.example/0")]),
                  Ref(" T1 ", " https://e.example/1 "),
                  Ref("T2", "https://e.example/2"),
                  Ref("T3", "https://e.example/3"),
                  Ref("T4", "https://e.example/4"),
                  Ref("T5", "https://e.example/5"),
                  Ref("T6", "https://e.example/6") >>) ]) >>),
        overallConfidence |-> Str("high"),
        warnings |-> Arr(<<Str("Partial coverage")>>) ])

DataBare ==
  Obj([ summary |-> Str("Bare"),
        findings |-> Arr(<<
          Obj([ statement |-> Str("DEMAND is rising!"),
                references |-> Arr(<<Ref("  ", "https://e.example/7"),
                                     Ref("T8", " ")>>) ]) >>) ])

DataOdd ==
  Obj([ summary |-> Num(1),
        findings |-> Arr(<<
          Obj([ theme |-> Str("  "),
                statement |-> Str("Supply is tight"),
                confidence |-> Str("certain"),
                evidenceStatus |-> Num(7) ]) >>),
        overallConfidence |-> Str("extreme"),
        warnings |-> Str("w") ])

\* one engine stating the same thing twice, in different spelling
DataRepeat ==
  Obj([ summary |-> Str("Repeat"),
        findings |-> Arr(<<
          Obj([ theme |-> Str("Supply"),
                statement |-> Str("Supply is tight"),
                confidence |-> Str("high"),
                evidenceStatus |-> Str("confirmed") ]),
          Obj([ theme |-> Str("Supply"),
                statement |-> Str("supply is TIGHT."),
                confidence |-> Str("medium"),
                evidenceStatus |-> Str("confirmed") ]) >>) ])

\* an engine that found nothing
DataEmpty == Obj([summary |-> Str("Nothing found"), findings |-> Arr(<<>>)])

DataNoSummary == Obj([findings |-> Arr(<<>>)])

DataFindingsNotList == Obj([summary |-> Str("s"), findings |-> Str("none")])

DataNullFinding == Obj([summary |-> Str("s"), findings |-> Arr(<<Null>>)])

DataBadReference ==
  Obj([ summary |-> Str("s"),
        findings |-> Arr(<<
          Obj([ statement |-> Str("x"),
                references |-> Arr(<<Obj([title |-> Num(5), url |-> Str("u")])>>) ]) >>) ])

LongBody == CatAll([i \in 1..(BodyLimit + 1) |-> "x"])

HttpOk(data) == [kind |-> "http", ok |-> TRUE, status |-> 200, json |-> Ok(data)]

SteadyResponses == {HttpOk(DataRich), HttpOk(DataBare), HttpOk(DataEmpty)}

FlakyResponses ==
  { [kind |-> "reject", message |-> "fetch failed"],
    [kind |-> "http", ok |-> FALSE, status |-> 503, text |-> "Service Unavailable"],
    [kind |-> "http", ok |-> FALSE, status |-> 500, text |-> LongBody],
    [kind |-> "http", ok |-> TRUE, status |-> 200,
     json |-> Throw("Unexpected token < in JSON at position 0")],
    HttpOk(Null), HttpOk(DataNoSummary), HttpOk(DataFindingsNotList),
    HttpOk(DataNullFinding), HttpOk(DataBadReference), HttpOk(DataOdd),
    HttpOk(DataRepeat) }
  \cup SteadyResponses

\* what the server behind a URL may answer; a silent server never answers
Serves(url) ==
  CASE url = Str(FlakyUrl) -> FlakyResponses
    [] url = Str(SteadyUrl) -> SteadyResponses
    [] OTHER -> {}

Responses == FlakyResponses \cup SteadyResponses

\* questions passed to orchestrateResearch by a direct caller
Questions ==
  {"", "  ", "What are the risks of X?", " Explain tea ", "a? b; a", "a;b;c;d;e;f;g"}

\* request bodies as request.json() gives them to the route
Bodies ==
  { Ok(Obj([question |-> Str(" a? b; a ")])),
    Ok(Obj([question |-> Str(" \t ")])),
    Ok(Obj([question |-> Num(5)])),
    Ok(Null),
    Throw("Unexpected end of JSON input") }

(***************************************************************************)
(* State.                                                                  *)
(***************************************************************************)
VARIABLES
  env,            \* process.env, resolved per engine
  caller,         \* "none", "direct" (orchestrateResearch) or "route" (POST)
  pc,             \* "idle", "query" (loop head of queryEngines), "await", "done";
                  \* "planned" when only the planner was applied,
                  \* "normalised" when only the normaliser was applied
  question,       \* normalisedQuestion
  subquestions,
  idx,            \* position of the for-loop in ENGINE_CONFIGS
  results,        \* results of queryEngines
  fallbackUsed,   \* fallbackUsed of queryEngines
  fetchLog,       \* the fetch calls issued so far
  aborted,        \* request.signal.aborted of the route's request
  abortedPending, \* engines whose fetch was pending when the caller left
  reply,          \* what the caller gets back
  baseline        \* the Synthesis returned by the previous request

vars ==
  << env, caller, pc, question, subquestions, idx, results, fallbackUsed,
     fetchLog, aborted, abortedPending, reply, now, baseline >>

NoReply == [kind |-> "none"]

NoBaseline == [kind |-> "none"]

Init ==
  /\ env \in Environments
  /\ caller = "none"
  /\ pc = "idle"
  /\ question = ""
  /\ subquestions = <<>>
  /\ idx = 1
  /\ results = <<>>
  /\ fallbackUsed = FALSE
  /\ fetchLog = <<>>
  /\ aborted = FALSE
  /\ abortedPending = {}
  /\ reply = NoReply
  /\ now = 0
  /\ baseline = NoBaseline

(***************************************************************************)
(* orchestrateResearch up to its first await.                              *)
(***************************************************************************)
enterOrchestrate(q) ==
  LET normalisedQuestion == trim(q)
  IN IF normalisedQuestion = ""
       THEN /\ question' = normalisedQuestion
            /\ reply' = [kind |-> "throw", message |-> "Question cannot be empty."]
            /\ pc' = "done"
            /\ UNCHANGED subquestions
       ELSE /\ question' = normalisedQuestion
            /\ subquestions' = generateSubquestions(normalisedQuestion)
            /\ pc' = "query"
            /\ reply' = NoReply

orchestrateResearch(q) ==
  /\ pc = "idle"
  /\ caller' = "direct"
  /\ enterOrchestrate(q)
  /\ idx' = 1
  /\ results' = <<>>
  /\ fallbackUsed' = FALSE
  /\ UNCHANGED <<env, fetchLog, aborted, abortedPending, now, baseline>>

\* typeof body?.question === "string" ? body.question.trim() : ""
bodyQuestion(body) ==
  LET q == optGet(body, "question")
  IN IF q.t = "string" THEN trim(q.s) ELSE ""

\* The route handler up to the first await of orchestrateResearch
POST(body) ==
  /\ pc = "idle"
  /\ caller' = "route"
  /\ IF ~body.ok
       THEN /\ reply' = [kind |-> "http", status |-> 500, error |-> body.message]
            /\ pc' = "done"
            /\ UNCHANGED <<question, subquestions>>
     ELSE IF bodyQuestion(body.v) = ""
       THEN /\ reply' = [kind |-> "http", status |-> 400,
                         error |-> "A non-empty question is required."]
            /\ pc' = "done"
            /\ UNCHANGED <<question, subquestions>>
     ELSE enterOrchestrate(bodyQuestion(body.v))
  /\ idx' = 1
  /\ results' = <<>>
  /\ fallbackUsed' = FALSE
  /\ UNCHANGED <<env, fetchLog, aborted, abortedPending, now, baseline>>

(***************************************************************************)
(* queryEngines: one iteration of the loop per engine, each awaited        *)
(* before the next begins.                                                 *)
(***************************************************************************)
\* (a loop that stops one engine short)
loopFinishedEarly(i) == i >= Len(ENGINE_CONFIGS)

\* the for-loop over ENGINE_CONFIGS has run out
loopFinished(i) == i > Len(ENGINE_CONFIGS)

pushResult(result) ==
  /\ results' = Append(results, result)
  /\ fallbackUsed' = (fallbackUsed \/ result.usedFallback)
  /\ idx' = idx + 1

\* runSingleEngine on an engine without endpoint or key: no fetch
RunUnconfigured ==
  /\ pc = "query"
  /\ ~loopFinished(idx)
  /\ ~engineConfigured(env[idx])
  /\ pushResult(generateFallback(ENGINE_CONFIGS[idx], question, subquestions))
  /\ UNCHANGED <<env, caller, pc, question, subquestions, fetchLog, aborted,
                 abortedPending, reply, now, baseline>>

fetchRequest(i) ==
  [ engine |-> i,
    url |-> env[i].endpoint,
    method |-> "POST",
    contentType |-> "application/json",
    authorization |-> "Bearer " \o ToJsString(env[i].apiKey),
    body |-> [question |-> question, subquestions |-> subquestions, model |-> env[i].model],
    cache |-> "no-store" ]

\* runSingleEngine up to `await fetch(...)`
Dispatch ==
  /\ pc = "query"
  /\ ~loopFinished(idx)
  /\ engineConfigured(env[idx])
  /\ fetchLog' = Append(fetchLog, fetchRequest(idx))
  /\ pc' = "await"
  /\ UNCHANGED <<env, caller, question, subquestions, idx, results, fallbackUsed,
                 aborted, abortedPending, reply, now, baseline>>

\* the answer of the route's catch clause, or the rejection a direct caller sees
propagate(message) ==
  IF caller = "route"
    THEN [kind |-> "http", status |-> 500, error |-> message]
    ELSE [kind |-> "throw", message |-> message]

\* the fetch settles and runSingleEngine runs to its end; a rejection of
\* runSingleEngine would reject queryEngines and orchestrateResearch in turn
Settle(response) ==
  /\ pc = "await"
  /\ response \in Serves(env[idx].endpoint)
  /\ LET outcome == settleSingleEngine(ENGINE_CONFIGS[idx], env[idx], question,
                                       subquestions, response)
     IN IF outcome.ok
          THEN /\ pushResult(outcome.v)
               /\ pc' = "query"
               /\ UNCHANGED reply
          ELSE /\ reply' = propagate(outcome.message)
               /\ pc' = "done"
               /\ UNCHANGED <<results, fallbackUsed, idx>>
  /\ UNCHANGED <<env, caller, question, subquestions, fetchLog, aborted,
                 abortedPending, now, baseline>>

(***************************************************************************)
(* orchestrateResearch after `await queryEngines(...)`, and the route's    *)
(* answer.                                                                 *)
(***************************************************************************)
\* (an orchestrateResearch that returns the report as built)
finishWithoutDisclosure == buildMasterReport(question, subquestions, results, now)

finishOrchestrate ==
  LET synthesis == buildMasterReport(question, subquestions, results, now)
  IN IF fallbackUsed
       THEN [synthesis EXCEPT !.risksAndUncertainties = <<FallbackDisclosure>> \o @]
       ELSE synthesis

Aggregate ==
  /\ pc = "query"
  /\ loopFinished(idx)
  /\ reply' = IF caller = "route"
                THEN [kind |-> "http", status |-> 200, synthesis |-> finishOrchestrate]
                ELSE [kind |-> "return", synthesis |-> finishOrchestrate]
  /\ pc' = "done"
  /\ UNCHANGED <<env, caller, question, subquestions, idx, results, fallbackUsed,
                 fetchLog, aborted, abortedPending, now, baseline>>

\* The caller of the route goes away while the request is being served.
\* The handler never reads request.signal, so nothing else changes.
Disconnect ==
  /\ caller = "route"
  /\ pc \in {"query", "await"}
  /\ ~aborted
  /\ aborted' = TRUE
  /\ abortedPending' = IF pc = "await" THEN {idx} ELSE {}
  /\ UNCHANGED <<env, caller, pc, question, subquestions, idx, results,
                 fallbackUsed, fetchLog, reply, now, baseline>>

Next ==
  \/ \E q \in Questions : orchestrateResearch(q)
  \/ \E body \in Bodies : POST(body)
  \/ RunUnconfigured
  \/ Dispatch
  \/ \E response \in Responses : Settle(response)
  \/ Aggregate
  \/ Disconnect

Spec == Init /\ [][Next]_vars

(***************************************************************************)
(* Fairness.  The event loop runs every continuation that is ready, and a  *)
(* server that answers does so eventually; callers need not call, nor      *)
(* leave, and a silent server never answers.  Each condition is stated on  *)
(* the action's guard and its move of the control state: the action is     *)
(* enabled exactly when the guard holds, and a step of Next that moves the *)
(* control state this way is a step of that action.                        *)
(***************************************************************************)
control == <<pc, idx>>

RunUnconfiguredStep ==
  /\ pc = "query" /\ ~loopFinished(idx) /\ ~engineConfigured(env[idx])
  /\ pc' = "query" /\ idx' = idx + 1

DispatchStep ==
  /\ pc = "query" /\ ~loopFinished(idx) /\ engineConfigured(env[idx])
  /\ pc' = "await" /\ idx' = idx

SettleStep ==
  /\ pc = "await" /\ Serves(env[idx].endpoint) # {}
  /\ \/ pc' = "query" /\ idx' = idx + 1
     \/ pc' = "done" /\ idx' = idx

AggregateStep ==
  /\ pc = "query" /\ loopFinished(idx)
  /\ pc' = "done" /\ idx' = idx

FairSpec ==
  /\ Init /\ [][Next]_vars
  /\ WF_control(RunUnconfiguredStep)
  /\ WF_control(DispatchStep)
  /\ WF_control(SettleStep)
  /\ WF_control(AggregateStep)

(***************************************************************************)
(* The planner applied to every short question.                            *)
(***************************************************************************)
MaxQuestionLen == 4

PlanAlphabet == {"a", "B", " ", "?", ";"}

RECURSIVE StringsUpTo(_)
StringsUpTo(n) ==
  IF n = 0 THEN {""}
  ELSE LET shorter == StringsUpTo(n - 1)
       IN shorter \cup {s \o c : s \in shorter, c \in PlanAlphabet}

PlanQuestions == StringsUpTo(MaxQuestionLen)

\* orchestrateResearch up to and including generateSubquestions, and no
\* further: pc = "planned" has no successor
planSubquestions(q) ==
  /\ pc = "idle"
  /\ trim(q) # ""
  /\ question' = trim(q)
  /\ subquestions' = generateSubquestions(trim(q))
  /\ pc' = "planned"
  /\ UNCHANGED <<env, caller, idx, results, fallbackUsed, fetchLog, aborted,
                 abortedPending, reply, now, baseline>>

PlannerNext == Next \/ \E q \in PlanQuestions : planSubquestions(q)

PlannerSpec == Init /\ [][PlannerNext]_vars

(***************************************************************************)
(* Request after request against an environment without any credentials.  *)
(***************************************************************************)
MaxClock == 2

Unconfigured == <<Unset, Unset, Unset, Unset>>

RepeatInit == Init /\ env = Unconfigured

\* the caller has its answer; time passes and the next request may come
NextRequest ==
  /\ pc = "done"
  /\ pc' = "idle"
  /\ caller' = "none"
  /\ baseline' = IF reply.kind = "return"
                   THEN [kind |-> "synthesis", synthesis |-> reply.synthesis]
                   ELSE baseline
  /\ reply' = NoReply
  /\ \E t \in now..MaxClock : now' = t
  /\ UNCHANGED <<env, question, subquestions, idx, results, fallbackUsed, fetchLog,
                 aborted, abortedPending>>

RepeatNext ==
  \/ \E q \in Questions : orchestrateResearch(q)
  \/ RunUnconfigured
  \/ Aggregate
  \/ NextRequest

RepeatSpec == RepeatInit /\ [][RepeatNext]_vars

(***************************************************************************)
(* The normaliser applied to every short list of rated findings.           *)
(***************************************************************************)
MaxFindings == 3

\* finding.confidence as a payload may give it: a level, or nothing
RatedConfidences == {Str("high"), Str("medium"), Str("low"), Undef}

RatedFinding(confidence) ==
  IF confidence = Undef
    THEN Obj([statement |-> Str("s")])
    ELSE Obj([statement |-> Str("s"), confidence |-> confidence])

RatedFindings ==
  UNION { { [i \in 1..n |-> RatedFinding(ratings[i])] : ratings \in [1..n -> RatedConfidences] }
          : n \in 0..MaxFindings }

RatedPayloads ==
  { Obj([summary |-> Str("s"), findings |-> Arr(findings)]) : findings \in RatedFindings }
  \cup { Obj([summary |-> Str("s"), findings |-> Arr(findings), overallConfidence |-> overall])
           : findings \in RatedFindings, overall \in {Str("high"), Str("low")} }

\* normaliseEngineResponse on a schema-valid payload, and no further:
\* pc = "normalised" has no successor
normalisePayload(data) ==
  /\ pc = "idle"
  /\ pc' = "normalised"
  /\ reply' = [kind |-> "payload", data |-> data]
  /\ results' = <<normaliseEngineResponse(ENGINE_CONFIGS[1], data, "q", <<"q?">>,
                                          Str(SteadyUrl)).v>>
  /\ UNCHANGED <<env, caller, question, subquestions, idx, fallbackUsed, fetchLog,
                 aborted, abortedPending, now, baseline>>

NormaliserNext == Next \/ \E data \in RatedPayloads : normalisePayload(data)

NormaliserSpec == Init /\ [][NormaliserNext]_vars
(***************************************************************************)
(* Properties.                                                             *)
(***************************************************************************)
HasSynthesis == reply.kind = "return" \/ (reply.kind = "http" /\ reply.status = 200)

SynthesisFields ==
  { "question", "subquestions", "executiveSummary", "consensus", "disagreements",
    "keyFindings", "toolComparison", "risksAndUncertainties", "recommendations",
    "engines", "generatedAt" }

CompleteSynthesis(synthesis) ==
  /\ DOMAIN synthesis = SynthesisFields
  /\ synthesis.question = question
  /\ Len(synthesis.engines) = Len(ENGINE_CONFIGS)
  /\ Len(synthesis.toolComparison) = Len(ENGINE_CONFIGS)
  /\ Len(synthesis.executiveSummary) = 4

CaughtWarning(result) ==
  /\ result.warnings.t = "array"
  /\ Len(result.warnings.a) = 1
  /\ result.warnings.a[1].t = "string"
  /\ startsWith(result.warnings.a[1].s, "Live API call threw an error: ")

GoodPlan(plan) ==
  /\ Len(plan) \in 1..6
  /\ \A i \in 1..Len(plan) : plan[i] # ""
  /\ \A i, j \in 1..Len(plan) : i # j => plan[i] # plan[j]

\* C2: for a non-blank question the planner's list, and the subquestions of the
\* Synthesis returned, has 1 to 6 entries, all non-empty and pairwise different.
ClaimC2 ==
  /\ (pc # "idle" /\ question # "") => GoodPlan(subquestions)
  /\ HasSynthesis => (reply.synthesis.subquestions = subquestions
                      /\ GoodPlan(reply.synthesis.subquestions))

\* a question with a repeated segment, planned into fewer sub-questions than
\* it has segments
WitnessC2 ==
  /\ pc = "planned"
  /\ question = "a;a"
  /\ subquestions = <<"a?">>

\* C3: a Synthesis exists only when the adapter call of every registered
\* engine has completed, and its engines are the results of all registered
\* engines, one each, in registry order.
ClaimC3 ==
  HasSynthesis =>
    /\ pc = "done"
    /\ Len(results) = Len(ENGINE_CONFIGS)
    /\ reply.synthesis.engines = results
    /\ \A i \in EngineIndex : results[i].engineId = ENGINE_CONFIGS[i].id
    /\ \A k \in 1..Len(fetchLog) : fetchLog[k].engine <= Len(results)

\* a Synthesis built after two live calls were awaited
WitnessC3 == HasSynthesis /\ Len(fetchLog) >= 2

AllResults ==
  {results[i] : i \in 1..Len(results)}
    \cup (IF HasSynthesis
            THEN {reply.synthesis.engines[i] : i \in 1..Len(reply.synthesis.engines)}
            ELSE {})

\* C4: in every EngineResult usedFallback = true implies
\* overallConfidence = "low".
ClaimC4 ==
  \A result \in AllResults : result.usedFallback => result.overallConfidence = Str("low")

\* fallback results of three branches side by side: unconfigured, and a live
\* call answered with a body that failed the schema check
WitnessC4 ==
  /\ HasSynthesis
  /\ \E result \in AllResults : result.usedFallback /\ result.rawEndpoint # Undef
  /\ \E result \in AllResults : result.usedFallback /\ result.rawEndpoint = Undef

Dispatched(i) == \E k \in 1..Len(fetchLog) : fetchLog[k].engine = i

\* C5: the engine calls are dispatched concurrently: while one engine's call
\* is pending, the call of every other configured engine has been issued too.
ClaimC5 ==
  pc = "await" =>
    \A j \in EngineIndex : engineConfigured(env[j]) => Dispatched(j)

\* C6: every request that is being served eventually gets its answer, also
\* when a configured endpoint never responds.
ClaimC6 == (pc \in {"query", "await"}) ~> (pc = "done")

\* C7: an engine call that was pending when the caller went away resolves to
\* the fallback result of a transport failure.
ClaimC7 ==
  \A i \in abortedPending :
    Len(results) >= i => (results[i].usedFallback /\ CaughtWarning(results[i]))

Absent(v) == v = Undef

Unconfigurable(i) == Absent(env[i].endpoint) \/ Absent(env[i].apiKey)

NoWarnings(result) == result.warnings \in {Undef, Arr(<<>>)}

\* C8 as claimed: an engine without endpoint or credential gets no network
\* call and a fallback result without warnings.
ClaimC8Original ==
  \A i \in 1..Len(results) :
    Unconfigurable(i) =>
      /\ ~Dispatched(i)
      /\ results[i].usedFallback
      /\ NoWarnings(results[i])

\* C8: an engine without endpoint or credential gets no network call and the
\* fallback result, whose only warning is the fixed synthetic-placeholder
\* disclosure.
ClaimC8 ==
  /\ \A i \in EngineIndex : Unconfigurable(i) => ~Dispatched(i)
  /\ \A i \in 1..Len(results) :
       Unconfigurable(i) =>
         /\ results[i].usedFallback
         /\ results[i].warnings = Arr(<<Str(SyntheticWarning)>>)
         /\ results[i] = generateFallback(ENGINE_CONFIGS[i], question, subquestions)

\* an engine with an endpoint but no key has its result, next to an engine
\* that was called
WitnessC8 ==
  /\ \E i \in 1..Len(results) : Absent(env[i].apiKey) /\ ~Absent(env[i].endpoint)
  /\ Len(fetchLog) > 0

SameButTimestamp(a, b) ==
  [a EXCEPT !.generatedAt = 0] = [b EXCEPT !.generatedAt = 0]

\* C9: with all engines unconfigured, the Synthesis of a request equals the
\* Synthesis of the previous request on the same question in every field but
\* generatedAt.
ClaimC9 ==
  (reply.kind = "return" /\ baseline.kind = "synthesis"
     /\ baseline.synthesis.question = reply.synthesis.question)
    => SameButTimestamp(reply.synthesis, baseline.synthesis)

\* the same question answered twice, at different times
WitnessC9 ==
  /\ reply.kind = "return" /\ baseline.kind = "synthesis"
  /\ baseline.synthesis.question = reply.synthesis.question
  /\ baseline.synthesis.generatedAt # reply.synthesis.generatedAt

\* C10: every Finding of every EngineResult has at most 5 References, each
\* with a non-empty title and a non-empty URL.
ClaimC10 ==
  \A result \in AllResults :
    \A f \in 1..Len(result.findings) :
      /\ Len(result.findings[f].references) <= 5
      /\ \A r \in 1..Len(result.findings[f].references) :
           /\ result.findings[f].references[r].title # ""
           /\ result.findings[f].references[r].url # ""

Lines(seq) == {seq[i] : i \in 1..Len(seq)}

\* the canonical statement keys of one engine's findings
KeysOf(result) ==
  {normaliseText(result.findings[f].statement) : f \in 1..Len(result.findings)}

KeysPerEngine(engines) == [i \in 1..Len(engines) |-> KeysOf(engines[i])]

HasConsensusLine(synthesis, key) ==
  \E line \in Lines(synthesis.consensus) : startsWith(line, key \o " (corroborated by ")

HasDisagreementLine(synthesis, key) ==
  \E line \in Lines(synthesis.disagreements) : startsWith(line, key \o " (only reported by ")

ConsensusRule(synthesis) ==
  LET engines == synthesis.engines
      keysPer == KeysPerEngine(engines)
      held == UNION {keysPer[i] : i \in 1..Len(engines)}
      holders(key) == {engines[i].engineId : i \in {j \in 1..Len(engines) : key \in keysPer[j]}}
  IN /\ \A key \in held :
          /\ HasConsensusLine(synthesis, key) => Cardinality(holders(key)) >= 2
          /\ HasDisagreementLine(synthesis, key) <=> Cardinality(holders(key)) = 1
          /\ ~(HasConsensusLine(synthesis, key) /\ HasDisagreementLine(synthesis, key))
     /\ \A line \in Lines(synthesis.consensus) :
          \E key \in held : startsWith(line, key \o " (corroborated by ")
     /\ \A line \in Lines(synthesis.disagreements) :
          \E key \in held : startsWith(line, key \o " (only reported by ")

\* C11: a canonical statement key has a consensus line only if at least 2
\* distinct engines hold it, has a disagreement line exactly when a single
\* engine holds it (however often that engine repeats it), and never has both.
ClaimC11 == HasSynthesis => ConsensusRule(reply.synthesis)

\* one key corroborated by two engines, next to a key that a single engine
\* states twice
WitnessC11 ==
  /\ HasSynthesis
  /\ Len(reply.synthesis.consensus) > 0
  /\ \E i \in 1..Len(results) :
       /\ ~results[i].usedFallback
       /\ Len(results[i].findings) = 2
       /\ Cardinality(KeysOf(results[i])) = 1
       /\ \A j \in 1..Len(results) : j # i => KeysOf(results[j]) \cap KeysOf(results[i]) = {}

NoDuplicates(seq) == \A i, j \in 1..Len(seq) : i # j => seq[i] # seq[j]

AnyFallback(engines) == \E i \in 1..Len(engines) : engines[i].usedFallback

\* C12: risksAndUncertainties begins with the synthetic-scaffolding disclosure
\* exactly when some EngineResult has usedFallback = true; the lines after it
\* are pairwise different and at most 10, so the list has at most 11 entries,
\* and at most 10 when no engine fell back.
ClaimC12 ==
  HasSynthesis =>
    LET risks == reply.synthesis.risksAndUncertainties
        anyFallback == AnyFallback(reply.synthesis.engines)
        rest == IF anyFallback THEN Tail(risks) ELSE risks
    IN /\ (Len(risks) > 0 /\ risks[1] = FallbackDisclosure) <=> anyFallback
       /\ NoDuplicates(rest)
       /\ Len(rest) <= 10
       /\ Len(risks) <= 11
       /\ ~anyFallback => Len(risks) <= 10

\* more than 10 uncertain findings, cut to 10 lines behind the disclosure
WitnessC12 ==
  /\ HasSynthesis
  /\ AnyFallback(reply.synthesis.engines)
  /\ countFindings(reply.synthesis.engines) > 10
  /\ Len(reply.synthesis.risksAndUncertainties) = 11

ConfidenceLevels == {Str("high"), Str("medium"), Str("low")}

EvidenceStatuses == {Str("confirmed"), Str("uncertain"), Str("conflicting")}

\* C13: every Finding of every EngineResult has a confidence among high,
\* medium, low and an evidenceStatus among confirmed, uncertain, conflicting,
\* and every EngineResult has an overallConfidence among high, medium, low.
ClaimC13 ==
  \A result \in AllResults :
    /\ result.overallConfidence \in ConfidenceLevels
    /\ \A f \in 1..Len(result.findings) :
         /\ result.findings[f].confidence \in ConfidenceLevels
         /\ result.findings[f].evidenceStatus \in EvidenceStatuses

\* the result that the step has pushed
Pushed == results'[Len(results')]

\* a success status whose body has a summary and a list of findings
SchemaValid(response) ==
  /\ response.kind = "http"
  /\ response.ok
  /\ response.json.ok
  /\ ~IsNullish(response.json.v)
  /\ ~IsNullish(Get(response.json.v, "summary"))
  /\ Get(response.json.v, "findings").t = "array"

LiveResult(response, result) ==
  /\ result.rawEndpoint = env[idx].endpoint
  /\ result.summary = Get(response.json.v, "summary")
  /\ Len(result.findings) = Len(Get(response.json.v, "findings").a)

\* C14: an engine's result has usedFallback = false exactly when the engine
\* was configured, its POST returned a success status and the body had a
\* summary and a list of findings; the result is then the normalised payload
\* and its rawEndpoint is the configured endpoint.
ClaimC14 ==
  [][ /\ RunUnconfigured => Pushed.usedFallback
      /\ \A response \in Responses :
           Settle(response) =>
             /\ ~Pushed.usedFallback <=> SchemaValid(response)
             /\ SchemaValid(response) => LiveResult(response, Pushed) ]_vars

\* a success status whose body lacks summary or whose findings is not a list
SchemaMismatch(response) ==
  /\ response.kind = "http"
  /\ response.ok
  /\ response.json.ok
  /\ \/ IsNullish(response.json.v)
     \/ IsNullish(Get(response.json.v, "summary"))
     \/ Get(response.json.v, "findings").t # "array"

\* the fetch rejected, the status was not a success, or the body did not parse
FailedCall(response) ==
  \/ response.kind = "reject"
  \/ ~response.ok
  \/ ~response.json.ok

HasWarning(result, text) ==
  /\ result.warnings.t = "array"
  /\ \E w \in 1..Len(result.warnings.a) : result.warnings.a[w] = Str(text)

\* C15: a success response whose body lacks summary, or whose findings is not a
\* list, gives a fallback result (usedFallback, overallConfidence low) with the
\* fixed schema-mismatch warning and rawEndpoint set to the endpoint called;
\* the unconfigured, non-success-status and exception branches leave
\* rawEndpoint absent.
ClaimC15 ==
  [][ /\ RunUnconfigured => Absent(Pushed.rawEndpoint)
      /\ \A response \in Responses :
           Settle(response) =>
             /\ SchemaMismatch(response) =>
                  /\ Pushed.usedFallback
                  /\ Pushed.overallConfidence = Str("low")
                  /\ HasWarning(Pushed, SchemaWarning)
                  /\ Pushed.rawEndpoint = env[idx].endpoint
                  /\ ~Absent(Pushed.rawEndpoint)
             /\ FailedCall(response) =>
                  (Pushed.usedFallback /\ Absent(Pushed.rawEndpoint)) ]_vars

\* a schema-mismatch fallback that names its endpoint, next to the fallback of
\* an unconfigured engine, which names none
WitnessC15 ==
  /\ \E i \in 1..Len(results) :
       /\ results[i].usedFallback
       /\ HasWarning(results[i], SchemaWarning)
       /\ results[i].rawEndpoint = env[i].endpoint
  /\ \E i \in 1..Len(results) :
       ~engineConfigured(env[i]) /\ results[i].usedFallback /\ Absent(results[i].rawEndpoint)

\* C16: every EngineResult with usedFallback = true carries the fixed
\* synthetic-disclosure warning; the fallback result of an engine that was
\* called carries its branch warning in addition to it.
ClaimC16 ==
  /\ \A result \in AllResults :
       result.usedFallback => HasWarning(result, SyntheticWarning)
  /\ \A i \in 1..Len(results) :
       (results[i].usedFallback /\ Dispatched(i)) => Len(results[i].warnings.a) >= 2

RECURSIVE SumOf(_)
SumOf(numbers) == IF numbers = <<>> THEN 0 ELSE numbers[1] + SumOf(Tail(numbers))

LevelWeight(level) ==
  CASE level = Str("high") -> 3
    [] level = Str("medium") -> 2
    [] level = Str("low") -> 1

\* the level of an average weight, the average being total / count
LevelOfAverage(total, count) ==
  IF count = 0 THEN "low"
  ELSE IF 100 * total >= 250 * count THEN "high"
  ELSE IF 100 * total >= 175 * count THEN "medium"
  ELSE "low"

\* the confidences of a payload's findings, medium where the finding has none
RatingsOf(data) ==
  [i \in 1..Len(Get(data, "findings").a) |->
     Coalesce(Get(Get(data, "findings").a[i], "confidence"), Str("medium"))]

InferredLevel(data) ==
  LevelOfAverage(SumOf([i \in 1..Len(RatingsOf(data)) |-> LevelWeight(RatingsOf(data)[i])]),
                 Len(RatingsOf(data)))

\* C17: the inferred level weighs high 3, medium 2, low 1 and is high for an
\* average of at least 2.5, medium for at least 1.75, low otherwise and for no
\* findings; the normaliser's overallConfidence is the inferred level exactly
\* when the payload has none of its own, and the payload's otherwise.
ClaimC17 ==
  pc = "normalised" =>
    /\ Len(results[1].findings) = Len(RatingsOf(reply.data))
    /\ \A i \in 1..Len(results[1].findings) :
         results[1].findings[i].confidence = RatingsOf(reply.data)[i]
    /\ results[1].overallConfidence =
         IF IsNullish(Get(reply.data, "overallConfidence"))
           THEN Str(InferredLevel(reply.data))
           ELSE Get(reply.data, "overallConfidence")

\* [high, high, medium] without an overallConfidence of its own: average 2.67,
\* inferred high
WitnessC17 ==
  /\ pc = "normalised"
  /\ IsNullish(Get(reply.data, "overallConfidence"))
  /\ RatingsOf(reply.data) = <<Str("high"), Str("high"), Str("medium")>>
  /\ results[1].overallConfidence = Str("high")

\* finding f of engine i is the first finding, in report order, with its
\* canonical key
FirstSeen(engines, i, f) ==
  LET key == normaliseText(engines[i].findings[f].statement)
  IN \A j \in 1..i :
       \A g \in 1..Len(engines[j].findings) :
         (j < i \/ g < f) => normaliseText(engines[j].findings[g].statement) # key

\* C18: each consensus line shows the statement of the first-seen finding of
\* its canonical group as the engine wrote it, followed by the names of the
\* corroborating engines; there are at most 8 consensus lines.
ClaimC18 ==
  HasSynthesis =>
    /\ Len(reply.synthesis.consensus) <= 8
    /\ \A line \in Lines(reply.synthesis.consensus) :
         \E i \in 1..Len(reply.synthesis.engines) :
           \E f \in 1..Len(reply.synthesis.engines[i].findings) :
             /\ FirstSeen(reply.synthesis.engines, i, f)
             /\ startsWith(line, reply.synthesis.engines[i].findings[f].statement
                                   \o " (corroborated by ")

\* C19: executiveSummary has exactly 4 lines: the first consensus line, or the
\* preliminary-scaffolding line when there is no consensus; the coverage line
\* with the number of engines and the total number of findings; the line that
\* all engines responded successfully exactly when no engine used fallback,
\* the fallback caveat otherwise; the call to action.
ClaimC19 ==
  HasSynthesis =>
    LET synthesis == reply.synthesis
        summary == synthesis.executiveSummary
    IN /\ Len(summary) = 4
       /\ summary[1] =
            IF Len(synthesis.consensus) > 0
              THEN synthesis.consensus[1]
              ELSE "Engines produced preliminary scaffolding for \"" \o synthesis.question
                     \o "\" but require live connectors for verification."
       /\ summary[2] =
            "Coverage blends " \o ToString(Len(synthesis.engines))
              \o " research engines, each contributing "
              \o ToString(SumOf([i \in 1..Len(synthesis.engines) |->
                                   Len(synthesis.engines[i].findings)]))
              \o " discrete findings."
       /\ summary[3] =
            IF AnyFallback(synthesis.engines)
              THEN "At least one engine responded via fallback mode; interpret insights as indicative rather than authoritative."
              ELSE "All engines responded successfully with structured findings."
       /\ summary[4] =
            "Recommended next step: validate the highest-priority findings with primary sources or domain experts before acting."

FallbackNames(engines) ==
  LET fallen == SelectIdx(engines, {i \in 1..Len(engines) : engines[i].usedFallback})
  IN [i \in 1..Len(fallen) |-> fallen[i].engineName]

\* C20: recommendations has the credential-configuration line exactly when
\* some engine used fallback, and that line names exactly the engines whose
\* result has usedFallback = true; the verification-log and red-team lines are
\* always there; the list has no duplicates and at most 6 entries.
ClaimC20 ==
  HasSynthesis =>
    LET engines == reply.synthesis.engines
        lines == Lines(reply.synthesis.recommendations)
    IN /\ (\E line \in lines : startsWith(line, "Configure API credentials for "))
            <=> AnyFallback(engines)
       /\ AnyFallback(engines) =>
            ("Configure API credentials for " \o join(FallbackNames(engines), ", ")
               \o " to unlock live evidence.") \in lines
       /\ "Create a verification log capturing source reliability, publication dates, and bias notes for every cited item."
            \in lines
       /\ \E line \in lines :
            startsWith(line, "Schedule a red-team review to stress-test the narrative around ")
       /\ NoDuplicates(reply.synthesis.recommendations)
       /\ Len(reply.synthesis.recommendations) <= 6

\* a report in which some engines fell back and others answered live
WitnessC20 ==
  /\ HasSynthesis
  /\ AnyFallback(reply.synthesis.engines)
  /\ \E i \in 1..Len(reply.synthesis.engines) : ~reply.synthesis.engines[i].usedFallback
  /\ Len(reply.synthesis.recommendations) = 4

AllFallback(engines) == \A i \in 1..Len(engines) : engines[i].usedFallback

\* C21: when every engine is in fallback mode, no two engines' findings share
\* a canonical statement key, consensus is empty, every finding has its own
\* disagreement line ("only reported by" its engine), the executive summary
\* opens with the scaffolding line and the first recommendation is the
\* baseline-research line.
ClaimC21 ==
  (HasSynthesis /\ AllFallback(reply.synthesis.engines)) =>
    LET synthesis == reply.synthesis
        engines == synthesis.engines
        keysPer == KeysPerEngine(engines)
    IN /\ \A i, j \in 1..Len(engines) : i # j => keysPer[i] \cap keysPer[j] = {}
       /\ synthesis.consensus = <<>>
       /\ Len(synthesis.disagreements) =
            SumOf([i \in 1..Len(engines) |-> Len(engines[i].findings)])
       /\ \A i \in 1..Len(engines) :
            \A f \in 1..Len(engines[i].findings) :
              (normaliseText(engines[i].findings[f].statement) \o " (only reported by "
                 \o engines[i].engineName \o "; treat as unverified)")
                \in Lines(synthesis.disagreements)
       /\ startsWith(synthesis.executiveSummary[1],
                     "Engines produced preliminary scaffolding for ")
       /\ startsWith(synthesis.recommendations[1],
                     "Commission first-party research to establish a verified baseline on ")

\* a report of four fallback results, one of them of an engine that was called
WitnessC21 ==
  /\ HasSynthesis
  /\ AllFallback(reply.synthesis.engines)
  /\ Len(fetchLog) > 0
  /\ Len(reply.synthesis.disagreements) >= 2 * Len(ENGINE_CONFIGS)
====
